---- MODULE Spec2Model ----
(***************************************************************************)
(* A model of mapca.ma_pca (src/mapca/mapca.py): the order-selection       *)
(* pipeline of the moving-average PCA.  The pipeline is a straight chain   *)
(* of stages; each stage is modelled by the actions below, and each        *)
(* specification starts the pipeline at one stage with that stage's        *)
(* inputs drawn from bounded sets:                                         *)
(*                                                                         *)
(*   SpecProbe  lines  76-99   choice of the probe components              *)
(*   SpecDepth  lines 104-119  probe loop, early stop, rounded median      *)
(*   SpecClamp  lines 119-121  rounded median and clamp of the depth       *)
(*   SpecAdj    lines 150-191  checks on the corrected spectrum (complex)  *)
(*   Spec       lines 150-191  order selection (real spectrum)             *)
(*                                                                         *)
(* Numbers.  Eigenvalues are integers in units of machine epsilon, so that *)
(* Eps is 1 and the comparisons with eps are exact.  Kurtosis values are   *)
(* in hundredths.  np.log is the fixed-point table LnTable (LnScale units  *)
(* per 1.0), and the three criterion curves are kept as exact integer      *)
(* multiples of their values: 2*LnScale*aic, 2*LnScale*kic and             *)
(* 4*LnScale*mdl.  Only the sign of a first difference of one curve is     *)
(* ever read from them.  Indices keep the 0-based values of the source;    *)
(* TLA+ sequences are 1-based, so element j of an array is s[j+1].         *)
(***************************************************************************)
EXTENDS Integers, Sequences, FiniteSets, TLC

\* ---- program constants -------------------------------------------------
Eps == 1
minTp == 12
ConsensusMin == 6
KurtMax == 30
KurtSentinel == 100000
dim_n == 3
LnScale == 100000

\* ---- bounds of the model -----------------------------------------------
MaxT == 4
MaxExp == 2
MaxN == 30
MaxAdjT == 3
MaxAdjRe == 2
MaxIm == 1
MaxLen == 13
MaxEig == 2
MaxNonGauss == 1
MaxDepthVal == 2
MaxCollected == 3
MaxVox == 9
MaxClampT == 3

VARIABLES pc, outcome, EigenValues, kurtv1, idx_gauss, dfs, idx,
          sub_depth, sub_iid_sp, i, observed, sub_iid_sp_median,
          voxel_count, Nt, N, criteria, itc, comp_est

vars == <<pc, outcome, EigenValues, kurtv1, idx_gauss, dfs, idx,
          sub_depth, sub_iid_sp, i, observed, sub_iid_sp_median,
          voxel_count, Nt, N, criteria, itc, comp_est>>

\* ---- numpy helpers -----------------------------------------------------
RECURSIVE SumSeq(_)
SumSeq(s) == IF s = <<>> THEN 0 ELSE Head(s) + SumSeq(Tail(s))

Range(s) == {s[j] : j \in 1..Len(s)}

\* np.sum(s == v)
CountEq(s, v) == Cardinality({j \in 1..Len(s) : s[j] = v})

CountLe(s, v) == Cardinality({j \in 1..Len(s) : s[j] <= v})

\* element k (1-based) of np.sort(s)
KthSmallest(s, k) ==
    CHOOSE v \in Range(s) :
        /\ CountLe(s, v) >= k
        /\ CountLe(s, v - 1) < k

\* twice np.median(s), s not empty: the middle element, or the mean of the
\* two middle elements
Median2(s) ==
    LET n == Len(s) IN
    IF n % 2 = 1 THEN 2 * KthSmallest(s, (n + 1) \div 2)
    ELSE KthSmallest(s, n \div 2) + KthSmallest(s, n \div 2 + 1)

\* np.round(num / den), den > 0: round half to even
RoundHalfEven(num, den) ==
    LET q == num \div den
        r == num % den
    IN  IF 2 * r < den THEN q
        ELSE IF 2 * r > den THEN q + 1
        ELSE IF q % 2 = 0 THEN q ELSE q + 1

\* np.round(np.median(s))
RoundMedian(s) == RoundHalfEven(Median2(s), 2)

Abs(x) == IF x < 0 THEN -x ELSE x

RECURSIVE Pow(_, _)
Pow(b, e) == IF e = 0 THEN 1 ELSE b * Pow(b, e - 1)

\* round(LnScale * ln n) for n = 1..128
LnTable == <<
    0, 69315, 109861, 138629, 160944, 179176, 194591, 207944, 219722, 230259,
    239790, 248491, 256495, 263906, 270805, 277259, 283321, 289037, 294444,
    299573, 304452, 309104, 313549, 317805, 321888, 325810, 329584, 333220,
    336730, 340120, 343399, 346574, 349651, 352636, 355535, 358352, 361092,
    363759, 366356, 368888, 371357, 373767, 376120, 378419, 380666, 382864,
    385015, 387120, 389182, 391202, 393183, 395124, 397029, 398898, 400733,
    402535, 404305, 406044, 407754, 409434, 411087, 412713, 414313, 415888,
    417439, 418965, 420469, 421951, 423411, 424850, 426268, 427667, 429046,
    430407, 431749, 433073, 434381, 435671, 436945, 438203, 439445, 440672,
    441884, 443082, 444265, 445435, 446591, 447734, 448864, 449981, 451086,
    452179, 453260, 454329, 455388, 456435, 457471, 458497, 459512, 460517,
    461512, 462497, 463473, 464439, 465396, 466344, 467283, 468213, 469135,
    470048, 470953, 471850, 472739, 473620, 474493, 475359, 476217, 477068,
    477912, 478749, 479579, 480402, 481218, 482028, 482831, 483628, 484419,
    485203
>>

\* np.log of a positive integer, in LnScale units
Ln(n) == LnTable[n]

Real(x) == [re |-> x, im |-> 0]

\* ========================================================================
\* Stage 6-7: checks on the corrected spectrum and order selection
\* (lines 150-191).  EigenValues holds what utils._eigensp_adj returned.
\* ========================================================================

Criteria == {"aic", "kic", "mdl"}

\* np.sum(np.imag(EigenValues))
ImagSum(e) == SumSeq([j \in 1..Len(e) |-> e[j].im])

\* line 152: the truth value of the summed imaginary parts
ImagCheckFails(e) == ImagSum(e) # 0

\* np.real(EigenValues) <= eps, as the set of positions
ClampMask(e) == {j \in 1..Len(e) : e[j].re <= Eps}

\* EigenValues[np.real(EigenValues) >= eps], as the set of positions
ValidMask(e) == {j \in 1..Len(e) : e[j].re >= Eps}

\* numpy orders complex numbers by real part, then by imaginary part
CLess(a, b) == a.re < b.re \/ (a.re = b.re /\ a.im <= b.im)

\* np.min over the selected entries (not empty)
MinOf(e, S) ==
    LET m == CHOOSE j \in S : \A k \in S : CLess(e[j], e[k]) IN e[m]

\* lines 157-160, when the selection of line 159 is not empty
ClampSpectrum(e) ==
    IF ClampMask(e) = {} THEN e
    ELSE [j \in 1..Len(e) |->
            IF j \in ClampMask(e) THEN MinOf(e, ValidMask(e)) ELSE e[j]]

\* EigenValues[k:]
TailFrom(e, k) == SubSeq(e, k + 1, Len(e))

\* 2 * ln|z| in LnScale units (the real part of np.log(z), doubled)
LnAbs2(z) ==
    IF z.im = 0 THEN 2 * Ln(Abs(z.re))
    ELSE Ln(z.re * z.re + z.im * z.im)

\* 4 * LnScale * mlh of lines 168-171: with t = EigenValues[k:],
\*   LH  = Re log( prod(t ^ (1/(p-k))) / mean(t) )
\*       = sum(ln|t_j|)/(p-k) - ln|sum(t)| + ln(len(t))
\*   mlh = 0.5 * N * (p-k) * LH
Mlh4(e, n, p, k) ==
    LET t    == TailFrom(e, k)
        tsum == [re |-> SumSeq([j \in 1..Len(t) |-> t[j].re]),
                 im |-> SumSeq([j \in 1..Len(t) |-> t[j].im])]
        lnp  == SumSeq([j \in 1..Len(t) |-> LnAbs2(t[j])])
    IN  n * (lnp - (p - k) * (LnAbs2(tsum) - 2 * Ln(Len(t))))

\* 2 * df of line 172: df = 1 + 0.5 * k * (2p - k + 1)
Df2(p, k) == 2 + k * (2 * p - k + 1)

\* 2 * LnScale * aic[k-1], line 173: aic = -2 mlh + 2 df
AicAt(e, n, p, k) == 2 * LnScale * Df2(p, k) - Mlh4(e, n, p, k)

KicAtPenaltyOne(e, n, p, k) == LnScale * Df2(p, k) - Mlh4(e, n, p, k)

\* 2 * LnScale * kic[k-1], line 174: kic = -2 mlh + 3 df
KicAt(e, n, p, k) == 3 * LnScale * Df2(p, k) - Mlh4(e, n, p, k)

\* 4 * LnScale * mdl[k-1], line 175: mdl = -mlh + 0.5 df log(N)
MdlAt(e, n, p, k) == Df2(p, k) * Ln(n) - Mlh4(e, n, p, k)

\* itc = np.row_stack([aic, kic, mdl]), each row over k = 1 .. p-1
OrderCurves(e, n, p) ==
    << [k \in 1..(p - 1) |-> AicAt(e, n, p, k)],
       [k \in 1..(p - 1) |-> KicAt(e, n, p, k)],
       [k \in 1..(p - 1) |-> MdlAt(e, n, p, k)] >>

\* lines 179-184; an unrecognised name leaves criteria_idx unassigned
CriteriaIdx(c) ==
    CASE c = "aic" -> 0
      [] c = "kic" -> 1
      [] c = "mdl" -> 2

CriteriaIdxBound(c) == c = "aic" \/ c = "kic" \/ c = "mdl"

\* np.diff(c)
Diff(c) == [j \in 1..(Len(c) - 1) |-> c[j + 1] - c[j]]

\* np.where(d > 0)[0]: the 0-based positions of the positive entries
WherePositive(d) ==
    SelectSeq([j \in 1..Len(d) |-> j - 1], LAMBDA x : d[x + 1] > 0)

FirstDiffOrdersNoOffset(c) == WherePositive(Diff(c))

\* line 187: a = np.where(dlap > 0)[0] + 1
FirstDiffOrders(c) ==
    LET w == WherePositive(Diff(c)) IN [j \in 1..Len(w) |-> w[j] + 1]

SelectOrderLast(c) ==
    LET a == FirstDiffOrders(c) IN
    IF Len(a) = 0 THEN Len(c) ELSE a[Len(a)]

\* lines 186-191
SelectOrder(c) ==
    LET a == FirstDiffOrders(c) IN
    IF Len(a) = 0 THEN Len(c) ELSE a[1]

\* comp_est for the named criterion on a clamped spectrum
CompEstFor(c, e, n, p) == SelectOrder(OrderCurves(e, n, p)[CriteriaIdx(c) + 1])

NoCurves == << <<>>, <<>>, <<>> >>

\* lines 150-153
CheckImag ==
    /\ pc = "adjusted"
    /\ IF ImagCheckFails(EigenValues)
       THEN /\ pc' = "raised"
            /\ outcome' = "InvalidEigenvalue"
       ELSE /\ pc' = "clamp"
            /\ UNCHANGED outcome
    /\ UNCHANGED <<EigenValues, kurtv1, idx_gauss, dfs, idx, sub_depth,
                   sub_iid_sp, i, observed, sub_iid_sp_median, voxel_count,
                   Nt, N, criteria, itc, comp_est>>

\* lines 155-160; np.min of an empty selection raises
ClampEig ==
    /\ pc = "clamp"
    /\ IF ClampMask(EigenValues) # {} /\ ValidMask(EigenValues) = {}
       THEN /\ pc' = "raised"
            /\ outcome' = "EmptyMinimum"
            /\ UNCHANGED EigenValues
       ELSE /\ pc' = "estimate"
            /\ EigenValues' = ClampSpectrum(EigenValues)
            /\ UNCHANGED outcome
    /\ UNCHANGED <<kurtv1, idx_gauss, dfs, idx, sub_depth, sub_iid_sp, i,
                   observed, sub_iid_sp_median, voxel_count, Nt, N,
                   criteria, itc, comp_est>>

\* lines 162-177; aic, kic and mdl are real arrays, so of a score computed
\* from entries that kept an imaginary part numpy stores the real part
Estimate ==
    /\ pc = "estimate"
    /\ itc' = OrderCurves(EigenValues, N, Nt)
    /\ pc' = "select"
    /\ UNCHANGED <<outcome, EigenValues, kurtv1, idx_gauss, dfs, idx,
                   sub_depth, sub_iid_sp, i, observed, sub_iid_sp_median,
                   voxel_count, Nt, N, criteria, comp_est>>

\* lines 179-191; reading the unassigned criteria_idx at line 186 raises
Select ==
    /\ pc = "select"
    /\ IF CriteriaIdxBound(criteria)
       THEN /\ comp_est' = SelectOrder(itc[CriteriaIdx(criteria) + 1])
            /\ pc' = "selected"
            /\ outcome' = "ok"
       ELSE /\ pc' = "raised"
            /\ outcome' = "UnboundLocalError"
            /\ UNCHANGED comp_est
    /\ UNCHANGED <<EigenValues, kurtv1, idx_gauss, dfs, idx, sub_depth,
                   sub_iid_sp, i, observed, sub_iid_sp_median, voxel_count,
                   Nt, N, criteria, itc>>

\* the variables a stage does not use
IdleProbe ==
    /\ kurtv1 = <<>>
    /\ idx_gauss = <<>>
    /\ dfs = 0
    /\ idx = <<>>

IdleDepth ==
    /\ sub_depth = 0
    /\ sub_iid_sp = <<>>
    /\ i = 0
    /\ observed = <<>>
    /\ sub_iid_sp_median = 0
    /\ voxel_count = 0

IdleOrder ==
    /\ N = 0
    /\ criteria = "mdl"
    /\ itc = NoCurves
    /\ comp_est = 0

\* a real corrected spectrum, one entry per time point (0 is a numerically
\* zero entry, 1 is exactly eps); N = round(voxels / depth^3) is at least Nt,
\* because the depth is clamped to floor((voxels / Nt)^(1/3))
EigVals == {Real(0)} \cup {Real(Pow(2, j)) : j \in 0..MaxExp}

Init ==
    /\ pc = "adjusted"
    /\ outcome = "running"
    /\ Nt \in 2..MaxT
    /\ EigenValues \in [1..Nt -> EigVals]
    /\ N \in Nt..MaxN
    /\ criteria \in Criteria
    /\ itc = NoCurves
    /\ comp_est = 0
    /\ IdleProbe
    /\ IdleDepth

Next == CheckImag \/ ClampEig \/ Estimate \/ Select

Spec == Init /\ [][Next]_vars

\* a corrected spectrum that may be complex, and any criteria argument
AdjVals == {[re |-> r, im |-> m] : r \in (-1)..MaxAdjRe, m \in (-MaxIm)..MaxIm}

InitAdj ==
    /\ pc = "adjusted"
    /\ outcome = "running"
    /\ Nt \in 2..MaxAdjT
    /\ EigenValues \in [1..Nt -> AdjVals]
    /\ N \in {Nt, MaxN}
    /\ criteria \in Criteria \cup {"bic"}
    /\ itc = NoCurves
    /\ comp_est = 0
    /\ IdleProbe
    /\ IdleDepth

SpecAdj == InitAdj /\ [][Next]_vars

\* ------------------------------------------------------------------------
\* Properties of the order-selection stage
\* ------------------------------------------------------------------------

AllReal(e) == \A j \in 1..Len(e) : e[j].im = 0

\* the curve of the configured criterion
ChosenCurve == itc[CriteriaIdx(criteria) + 1]

\* the orders k in 1..T-2 at which the chosen curve increases
Increases == {k \in 1..(Nt - 2) : ChosenCurve[k + 1] > ChosenCurve[k]}

\* C1: for each of the three criteria, every T >= 2, every corrected
\* spectrum and every N, the selected order satisfies 1 <= comp_est <= T-1.
C1_OrderBounded ==
    pc = "selected" => (1 <= comp_est /\ comp_est <= Nt - 1)

\* C1 witness: with T = 4 an order strictly inside the range has been
\* selected under aic.
C1_Witness ==
    /\ pc = "selected"
    /\ Nt = 4
    /\ comp_est = 2
    /\ criteria = "aic"

\* C7: comp_est is the smallest k in 1..T-2 with c(k+1) > c(k) on the chosen
\* curve, and T-1 (the length of the curve) when the curve never increases.
C7_FirstIncrease ==
    pc = "selected" =>
        /\ Len(ChosenCurve) = Nt - 1
        /\ IF Increases = {}
           THEN comp_est = Nt - 1
           ELSE /\ comp_est \in Increases
                /\ \A k \in Increases : comp_est <= k

\* C7 witness: the curve increases at two orders and the first is selected.
C7_Witness ==
    /\ pc = "selected"
    /\ Cardinality(Increases) >= 2
    /\ comp_est = 1

\* C7, the other case: a curve that never increases selects T-1.
C7_WitnessNoIncrease ==
    /\ pc = "selected"
    /\ Nt >= 3
    /\ Increases = {}
    /\ comp_est = Nt - 1

OrderAic == CompEstFor("aic", EigenValues, N, Nt)
OrderKic == CompEstFor("kic", EigenValues, N, Nt)
OrderMdl == CompEstFor("mdl", EigenValues, N, Nt)

C4_Original ==
    (pc = "estimate" /\ AllReal(EigenValues)) =>
        \A j \in 1..Len(EigenValues) : EigenValues[j].re > Eps

\* C3 as stated: a corrected spectrum with any entry whose imaginary part
\* is not zero fails the check and never reaches clamping or order selection.
C3_Original ==
    pc \in {"clamp", "estimate", "select", "selected"} => AllReal(EigenValues)

\* C5 as stated: with a criteria value outside {aic, kic, mdl} the call
\* never selects an order, and the failure it ends with is the one raised
\* for the criterion (in the source, the unassigned criteria_idx).
C5_Original ==
    criteria \notin Criteria =>
        /\ pc # "selected"
        /\ pc = "raised" => outcome = "UnboundLocalError"

\* ========================================================================
\* Stage 3: the probe components (lines 76-99).  EigenValues holds the
\* reversed (descending) spectrum of the first decomposition, real.
\* ========================================================================

Min2(a, b) == IF a < b THEN a ELSE b

\* line 77: kurtv1[EigenValues > np.mean(EigenValues)] = 1000
\* (e[j] > sum(e) / len(e), without the division)
MaskKurt(kurt, e) ==
    LET total == SumSeq([k \in 1..Len(e) |-> e[k].re]) IN
    [j \in 1..Len(e) |->
        IF e[j].re * Len(e) > total THEN KurtSentinel ELSE kurt[j]]

\* lines 78-88: the 0-based indices with 0 < kurtv1 < 0.3 and eigenvalue > eps
GaussIndices(kurt, e) ==
    SelectSeq([j \in 1..Len(e) |-> j - 1],
              LAMBDA x : /\ kurt[x + 1] < KurtMax
                         /\ kurt[x + 1] > 0
                         /\ e[x + 1].re > Eps)

\* line 89: dfs = np.sum(EigenValues > eps)
DegreesOfFreedom(e) == Cardinality({j \in 1..Len(e) : e[j].re > Eps})

\* s[a:b] for 0 <= a, with numpy's clipping of b
Slice(s, a, b) == SubSeq(s, a + 1, Min2(b, Len(s)))

\* np.arange(a, b)
Arange(a, b) == [j \in 1..(b - a) |-> a + j - 1]

RECURSIVE SortedSeq(_)
SortedSeq(S) ==
    IF S = {} THEN <<>>
    ELSE LET m == CHOOSE x \in S : \A y \in S : x <= y
         IN  <<m>> \o SortedSeq(S \ {m})

NoUnique(s) == s

\* np.unique(s): the distinct values, ascending
Unique(s) == SortedSeq(Range(s))

\* lines 90-99
ProbeSet(ig, d) ==
    IF Len(ig) >= minTp
    THEN LET middle == RoundHalfEven(Len(ig), 2) IN
         Unique(Slice(ig, 0, 4) \o Slice(ig, middle - 1, middle + 3)
                \o Slice(ig, Len(ig) - 4, Len(ig)))
    ELSE Unique(Arange(d - Min2(minTp, d), d))

\* lines 76-89; utils._kurtn returns kurt
GaussSelect(kurt) ==
    /\ pc = "kurt"
    /\ kurtv1' = MaskKurt(kurt, EigenValues)
    /\ idx_gauss' = GaussIndices(kurtv1', EigenValues)
    /\ dfs' = DegreesOfFreedom(EigenValues)
    /\ pc' = "pick"
    /\ UNCHANGED <<outcome, EigenValues, idx, sub_depth, sub_iid_sp, i,
                   observed, sub_iid_sp_median, voxel_count, Nt, N,
                   criteria, itc, comp_est>>

\* lines 90-99
PickProbes ==
    /\ pc = "pick"
    /\ idx' = ProbeSet(idx_gauss, dfs)
    /\ pc' = "picked"
    /\ UNCHANGED <<outcome, EigenValues, kurtv1, idx_gauss, dfs, sub_depth,
                   sub_iid_sp, i, observed, sub_iid_sp_median, voxel_count,
                   Nt, N, criteria, itc, comp_est>>

\* spectra sorted descending, with entries 0, 2 eps, 4 eps .. 2 MaxEig eps
\* (0 is a numerically zero eigenvalue): the descending sequences of length
\* n with levels at most top
RECURSIVE DescendingSeqs(_, _)
DescendingSeqs(n, top) ==
    IF n = 0 THEN {<<>>}
    ELSE UNION {{<<Real(2 * v)>> \o s : s \in DescendingSeqs(n - 1, v)}
                : v \in 0..top}

ProbeSpectra == UNION {DescendingSeqs(n, MaxEig) : n \in 1..MaxLen}

\* the kurtosis vectors utils._kurtn may return: 0.15 everywhere but on the
\* components named by f (at most MaxNonGauss of them; 0 names none), which
\* sit on one of the two ends of the open interval (0, 0.3)
NonGaussChoices(n) == [1..MaxNonGauss -> 0..n]

KurtOf(f, b, n) ==
    [j \in 1..n |-> IF \E m \in 1..MaxNonGauss : f[m] = j THEN b ELSE 15]

InitProbe ==
    /\ pc = "kurt"
    /\ outcome = "running"
    /\ EigenValues \in ProbeSpectra
    /\ Nt = Len(EigenValues)
    /\ IdleProbe
    /\ IdleDepth
    /\ IdleOrder

NextProbe ==
    \/ \E f \in NonGaussChoices(Len(EigenValues)), b \in {0, KurtMax} :
          GaussSelect(KurtOf(f, b, Len(EigenValues)))
    \/ PickProbes

SpecProbe == InitProbe /\ [][NextProbe]_vars

StrictlyAscending(s) == \A j \in 1..(Len(s) - 1) : s[j] < s[j + 1]

ProbeSetWellFormed ==
    /\ StrictlyAscending(idx)
    /\ 1 <= Len(idx)
    /\ Len(idx) <= Min2(minTp, dfs)
    /\ \A j \in 1..Len(idx) : 0 <= idx[j] /\ idx[j] < dfs

\* C9 as stated: for every descending spectrum and every kurtosis vector the
\* probe set is strictly ascending, has between 1 and min(12, dfs) elements
\* and holds only indices smaller than dfs.
C9_Original == pc = "picked" => ProbeSetWellFormed

\* C9 amended: the same, for every descending spectrum with at least one
\* eigenvalue greater than machine epsilon (dfs >= 1); with dfs = 0 the
\* probe set is empty.
C9_Amended ==
    pc = "picked" =>
        IF dfs >= 1 THEN ProbeSetWellFormed ELSE idx = <<>>

\* C9 witness, first branch: at least 12 eligible indices with a gap among
\* them, and the three groups of four overlap (fewer than 12 probes).
C9_Witness ==
    /\ pc = "picked"
    /\ Len(idx_gauss) >= minTp
    /\ idx_gauss # Arange(0, Len(idx_gauss))
    /\ Len(idx) < minTp

\* C9 witness, fallback branch: fewer than 12 eligible, dfs below 12.
C9_WitnessFallback ==
    /\ pc = "picked"
    /\ Len(idx_gauss) < minTp
    /\ dfs >= 2
    /\ dfs < minTp
    /\ Len(idx) = dfs

\* ========================================================================
\* Stage 4: the subsampling depth (lines 104-121).  sub_depth is len(idx);
\* observed records what utils._est_indp_sp(...)[0] + 1 returned per probe.
\* ========================================================================

\* np.zeros((n,))
Zeros(n) == [j \in 1..n |-> 0]

ConsensusOfFour(tmp) == CountEq(tmp, RoundMedian(tmp)) > 3

\* lines 113-114: more than 6 of the depths in tmp equal their rounded median
Consensus(tmp) == CountEq(tmp, RoundMedian(tmp)) > ConsensusMin

\* largest r with r^3 * t <= v: np.floor(np.power(v / t, 1 / dim_n)).
\* (In floating point an exact cube v / t >= 64 can land one below; the
\* ratios of this model stay under 64.)
RECURSIVE RootFrom(_, _, _)
RootFrom(r, v, t) ==
    IF Pow(r + 1, dim_n) * t <= v THEN RootFrom(r + 1, v, t) ELSE r

FloorRoot(v, t) == RootFrom(0, v, t)

\* lines 120-121
ClampedDepth(d, v, t) == IF FloorRoot(v, t) < d THEN FloorRoot(v, t) ELSE d

\* one pass of the loop body, lines 106-117, for probe i; the call returns
\* the lag d - 1
ProbeStep(d) ==
    /\ pc = "probe"
    /\ i < sub_depth
    /\ observed' = Append(observed, d)
    /\ LET filled == [sub_iid_sp EXCEPT ![i + 1] = d]
           tmp_sub_sp == SubSeq(filled, 1, i)
       IN  IF i > ConsensusMin /\ Consensus(tmp_sub_sp)
           THEN /\ sub_iid_sp' = tmp_sub_sp
                /\ pc' = "median"
                /\ UNCHANGED i
           ELSE /\ sub_iid_sp' = filled
                /\ IF i + 1 < sub_depth
                   THEN i' = i + 1 /\ pc' = "probe"
                   ELSE UNCHANGED i /\ pc' = "median"
    /\ UNCHANGED <<outcome, EigenValues, kurtv1, idx_gauss, dfs, idx,
                   sub_depth, sub_iid_sp_median, voxel_count, Nt, N,
                   criteria, itc, comp_est>>

\* line 119
Median ==
    /\ pc = "median"
    /\ sub_iid_sp_median' = RoundMedian(sub_iid_sp)
    /\ pc' = "clamp"
    /\ UNCHANGED <<outcome, EigenValues, kurtv1, idx_gauss, dfs, idx,
                   sub_depth, sub_iid_sp, i, observed, voxel_count, Nt, N,
                   criteria, itc, comp_est>>

\* lines 120-121
ClampDepth ==
    /\ pc = "clamp"
    /\ sub_iid_sp_median' = ClampedDepth(sub_iid_sp_median, voxel_count, Nt)
    /\ pc' = "clamped"
    /\ UNCHANGED <<outcome, EigenValues, kurtv1, idx_gauss, dfs, idx,
                   sub_depth, sub_iid_sp, i, observed, voxel_count, Nt, N,
                   criteria, itc, comp_est>>

\* the depths one probe can report: lag + 1 with a lag in 0..MaxDepthVal-1
DepthVals == 1..MaxDepthVal

\* the loop starts with between 1 and 12 probes and an array of zeros
InitDepth ==
    /\ pc = "probe"
    /\ outcome = "running"
    /\ sub_depth \in 1..minTp
    /\ sub_iid_sp = Zeros(sub_depth)
    /\ i = 0
    /\ observed = <<>>
    /\ sub_iid_sp_median = 0
    /\ voxel_count = 0
    /\ Nt = 0
    /\ EigenValues = <<>>
    /\ IdleProbe
    /\ IdleOrder

NextDepth ==
    \/ \E d \in DepthVals : ProbeStep(d)
    \/ Median

SpecDepth == InitDepth /\ [][NextDepth]_vars

\* the loop has ended on a short list of depths (no early stop); the mask
\* has voxel_count voxels and the data Nt time points
InitClamp ==
    /\ pc = "median"
    /\ outcome = "running"
    /\ sub_depth \in 1..MaxCollected
    /\ sub_iid_sp \in [1..sub_depth -> DepthVals]
    /\ observed = sub_iid_sp
    /\ i = sub_depth - 1
    /\ sub_iid_sp_median = 0
    /\ voxel_count \in 1..MaxVox
    /\ Nt \in 1..MaxClampT
    /\ EigenValues = <<>>
    /\ IdleProbe
    /\ IdleOrder

NextClamp == Median \/ ClampDepth

SpecClamp == InitClamp /\ [][NextClamp]_vars

\* the loop left through the break of line 116
StoppedEarly == pc \in {"median", "clamp"} /\ Len(sub_iid_sp) < sub_depth

\* the depths the probes not processed could still report
Unprocessed == [1..(sub_depth - Len(observed)) -> DepthVals]

\* C10: the early stop never changes the candidate depth: whatever the
\* probes left out would have reported, the rounded median of the kept depths
\* equals the rounded median of the depths of all probes.
C10_EarlyStopKeepsMedian ==
    pc = "clamp" =>
        \A rest \in Unprocessed :
            sub_iid_sp_median = RoundMedian(observed \o rest)

\* C10 witness: the loop stopped early with probes left over, on depths that
\* are not all equal.
C10_Witness ==
    /\ pc = "clamp"
    /\ StoppedEarly
    /\ Len(observed) < sub_depth
    /\ Cardinality(Range(observed)) >= 2
    /\ Cardinality(Range(sub_iid_sp)) >= 2

\* C8 as stated: when the loop stops early, the depths kept for the final
\* median are the depths of every probe processed, the stopping probe
\* included.
C8_Original == StoppedEarly => sub_iid_sp = observed

\* C2 as stated: the depth after the clamp is at least 1, for every voxel
\* count >= 1, every T >= 1 and every list of probe depths.
C2_Original == pc = "clamped" => sub_iid_sp_median >= 1
====
